---- MODULE Spec2Model ----
(***************************************************************************)
(* Glorious mouse battery tray: the device registry, the device locator,   *)
(* the feature-report codec, the status model and the polling loop, as     *)
(* state machines over the HID transport.                                  *)
(*                                                                         *)
(* An Option<T> of the source is a sequence of length at most one: <<>>    *)
(* is None and <<x>> is Some(x).  Indices into SUPPORTED_MICE are the      *)
(* source's (from 0).  A BatteryStatus is a record whose field `kind`      *)
(* names the variant and whose other fields are the variant's payload.     *)
(***************************************************************************)
EXTENDS Integers, Sequences, FiniteSets, TLC

VARIABLES
    device_list,   \* MouseBattery.hid_api's device list, in enumeration order
    attached,      \* the HID interfaces attached to the machine now
    selected,      \* Locate: <<what find_device returned>>, <<>> before the call
    wired,         \* Decode: read_battery_status's `wired` argument
    mouse_model,   \* Decode: read_battery_status's `mouse_model` argument
    device,        \* Decode: how the opened HidDevice answers the exchange
    status,        \* Decode: <<the BatteryStatus returned>>; Display: <<the one shown>>
    icon,          \* Display: get_icon_name(status), <<>> before the call
    tooltip,       \* Display: get_tooltip(status), <<>> before the call
    pc,            \* per thread: where it is in its handler
    op,            \* per thread: the query it runs ("battery", "firmware")
    mutex,         \* AppState.mouse_battery: <<>> free, <<t>> held by thread t
    dev,           \* per thread: the DeviceInfo find_device returned to it
    calls,         \* per thread: the transport calls of its current query, in order
    result,        \* per thread: the BatteryStatus its query returned
    version,       \* per thread: the firmware version its query returned
    tray,          \* the tray icon's text and tooltip as last set
    poll_err       \* the monitor's last update_tray_status returned Err

vars == <<device_list, attached, selected, wired, mouse_model, device, status, icon, tooltip,
          pc, op, mutex, dev, calls, result, version, tray, poll_err>>

-----------------------------------------------------------------------------
(* Bounds of the model.                                                    *)

MaxDevices == 3     \* longest enumeration the locator is run on
MaxAttached == 2    \* longest enumeration the application is started with

-----------------------------------------------------------------------------
(* Constants of the protocol.                                              *)

GLORIOUS_VENDOR_ID == 9610     \* 0x258A
FEATURE_INTERFACE == 2         \* 0x02
BATTERY_TAG == 131             \* 0x83
FIRMWARE_TAG == 129            \* 0x81
FULL_PERCENTAGE == 100

Byte == 0 .. 255

None == <<>>
Some(x) == <<x>>

\* SUPPORTED_MICE, in the source's order (0x2011, 0x2022, 0x2027, 0x2034).
SUPPORTED_MICE ==
    << [product_id |-> 8209, name |-> "Model O Wired", is_wired |-> TRUE],
       [product_id |-> 8226, name |-> "Model O Wireless", is_wired |-> FALSE],
       [product_id |-> 8231, name |-> "Model O PRO Wireless", is_wired |-> FALSE],
       [product_id |-> 8244, name |-> "Model D 2 PRO Wireless", is_wired |-> FALSE] >>

\* The status-code table of read_battery_status (0xA1, 0xA4, 0xA2, 0xA0, 0xA3).
STATUS_TABLE == << 161, 164, 162, 160, 163 >>

-----------------------------------------------------------------------------
(* Device registry.                                                        *)

\* Iterator::position(|&s| s == x): the index (from 0) of the first element
\* equal to x, as an Option.
RECURSIVE PositionFrom(_, _, _)
PositionFrom(seq, i, x) ==
    IF i > Len(seq) THEN None
    ELSE IF seq[i] = x THEN Some(i - 1)
    ELSE PositionFrom(seq, i + 1, x)

Position(seq, x) == PositionFrom(seq, 1, x)

\* MouseConfig::all_product_ids.
all_product_ids == [i \in 1 .. Len(SUPPORTED_MICE) |-> SUPPORTED_MICE[i].product_id]

Contains(seq, x) == \E i \in 1 .. Len(seq) : seq[i] = x

\* MouseConfig::from_product_id: the first entry with that product id.
from_product_id(product_id) ==
    LET at == Position(all_product_ids, product_id)
    IN  IF at = None THEN None ELSE Some(SUPPORTED_MICE[at[1] + 1])

\* MouseModel::from_product_id.
model_from_product_id(product_id) ==
    [config_index |-> Position(all_product_ids, product_id)]

\* MouseModel::config.
config(m) ==
    IF m.config_index = None THEN None
    ELSE Some(SUPPORTED_MICE[m.config_index[1] + 1])

\* MouseModel::name.
name(m) == IF config(m) = None THEN "Unknown Mouse" ELSE config(m)[1].name

\* MouseModel::is_wired.
is_wired(m) == IF config(m) = None THEN FALSE ELSE config(m)[1].is_wired

\* Every MouseModel: an index into the table, or unrecognized.
MouseModels == { [config_index |-> i] :
                    i \in {None} \cup { Some(k) : k \in 0 .. Len(SUPPORTED_MICE) - 1 } }

-----------------------------------------------------------------------------
(* Device locator.                                                         *)

\* A filter that does not look at the interface number.
is_match_any_interface(d) ==
    /\ d.vendor_id = GLORIOUS_VENDOR_ID
    /\ Contains(all_product_ids, d.product_id)

\* The closure of find_device's filter.
is_match(d) ==
    /\ d.vendor_id = GLORIOUS_VENDOR_ID
    /\ Contains(all_product_ids, d.product_id)
    /\ d.interface_number = FEATURE_INTERFACE

\* Iterator::filter, keeping the enumeration order.
RECURSIVE Filter(_)
Filter(seq) ==
    IF seq = <<>> THEN <<>>
    ELSE IF is_match(Head(seq)) THEN <<Head(seq)>> \o Filter(Tail(seq))
    ELSE Filter(Tail(seq))

\* The key find_device's comparator computes for one side: 0 wired,
\* 1 wireless, 2 not in the registry.
wired_rank(d) ==
    LET c == from_product_id(d.product_id)
    IN  IF c = None THEN 2 ELSE IF c[1].is_wired THEN 0 ELSE 1

\* The comparator of find_device: a_wired.cmp(&b_wired), then the product ids.
compare(a, b) ==
    IF wired_rank(a) < wired_rank(b) THEN "Less"
    ELSE IF wired_rank(a) > wired_rank(b) THEN "Greater"
    ELSE IF a.product_id < b.product_id THEN "Less"
    ELSE IF a.product_id > b.product_id THEN "Greater"
    ELSE "Equal"

\* Iterator::min_by: a left fold that keeps the earlier element unless the
\* later one compares smaller.
RECURSIVE MinFold(_, _)
MinFold(x, rest) ==
    IF rest = <<>> THEN x
    ELSE MinFold(IF compare(x, Head(rest)) = "Greater" THEN Head(rest) ELSE x,
                 Tail(rest))

\* A locator that takes the first interface passing the filter.
min_by_first(seq) == IF seq = <<>> THEN None ELSE Some(Head(seq))

min_by(seq) == IF seq = <<>> THEN None ELSE Some(MinFold(Head(seq), Tail(seq)))

\* MouseBattery::find_device on an enumeration.
find_device(list) == min_by(Filter(list))

-----------------------------------------------------------------------------
(* Status model.                                                           *)

Normal(p, m) == [kind |-> "Normal", percentage |-> p, mouse_model |-> m]
Charging(p, m) == [kind |-> "Charging", percentage |-> p, mouse_model |-> m]
FullyCharged(m) == [kind |-> "FullyCharged", mouse_model |-> m]
Asleep(m) == [kind |-> "Asleep", mouse_model |-> m]
WakingUp(m) == [kind |-> "WakingUp", mouse_model |-> m]
NotFound == [kind |-> "NotFound"]
Unknown(rs, rb, m) ==
    [kind |-> "Unknown", raw_status |-> rs, raw_battery |-> rb, mouse_model |-> m]

-----------------------------------------------------------------------------
(* Protocol codec.                                                         *)

\* The bytes of an inbound report the code reads.
ReportIndex == {1, 6, 7, 8, 9, 10}

\* let mut percentage = bfr_r[8]; if percentage == 0 { percentage = 1; }
coerce_percentage(raw) == IF raw = 0 THEN 1 ELSE raw

\* A position that does not look at the echoed tag.
status_position_untagged(bfr) == Position(STATUS_TABLE, bfr[1])

\* The position of bfr_r[1] in the table, forced to Some(2) when the
\* report does not echo the battery tag.
status_position(bfr) ==
    IF bfr[6] # BATTERY_TAG THEN Some(2) ELSE Position(STATUS_TABLE, bfr[1])

\* A decoder whose table arms follow the names waking-up = 0xA3, unused = 0xA0.
resolve_status_swapped(bfr, w, m) ==
    LET percentage == coerce_percentage(bfr[8])
        st == status_position(bfr)
    IN  IF st = Some(0) /\ ~w THEN Normal(percentage, m)
        ELSE IF st = Some(0) /\ w THEN
            IF percentage >= FULL_PERCENTAGE THEN FullyCharged(m)
            ELSE Charging(percentage, m)
        ELSE IF st = Some(1) THEN Asleep(m)
        ELSE IF st = Some(4) THEN WakingUp(m)
        ELSE Unknown(bfr[1], bfr[8], m)

\* A decoder without the coercion of a zero reading.
resolve_status_uncoerced(bfr, w, m) ==
    LET percentage == bfr[8]
        st == status_position(bfr)
    IN  IF st = Some(0) /\ ~w THEN Normal(percentage, m)
        ELSE IF st = Some(0) /\ w THEN
            IF percentage >= FULL_PERCENTAGE THEN FullyCharged(m)
            ELSE Charging(percentage, m)
        ELSE IF st = Some(1) THEN Asleep(m)
        ELSE IF st = Some(3) THEN WakingUp(m)
        ELSE Unknown(bfr[1], bfr[8], m)

\* A decoder that reports a wired mouse at 100 as charging.
resolve_status_strict(bfr, w, m) ==
    LET percentage == coerce_percentage(bfr[8])
        st == status_position(bfr)
    IN  IF st = Some(0) /\ ~w THEN Normal(percentage, m)
        ELSE IF st = Some(0) /\ w THEN
            IF percentage > FULL_PERCENTAGE THEN FullyCharged(m)
            ELSE Charging(percentage, m)
        ELSE IF st = Some(1) THEN Asleep(m)
        ELSE IF st = Some(3) THEN WakingUp(m)
        ELSE Unknown(bfr[1], bfr[8], m)

\* The decode of read_battery_status once both transport calls succeeded:
\* match (status, wired).
resolve_status(bfr, w, m) ==
    LET percentage == coerce_percentage(bfr[8])
        st == status_position(bfr)
    IN  IF st = Some(0) /\ ~w THEN Normal(percentage, m)
        ELSE IF st = Some(0) /\ w THEN
            IF percentage >= FULL_PERCENTAGE THEN FullyCharged(m)
            ELSE Charging(percentage, m)
        ELSE IF st = Some(1) THEN Asleep(m)
        ELSE IF st = Some(3) THEN WakingUp(m)
        ELSE Unknown(bfr[1], bfr[8], m)

\* A query that reports a failed transport call as an absent device.
transport_failure_absent(m) == NotFound

\* What read_battery_status returns when a transport call fails.
transport_failure(m) == Unknown(0, 0, m)

\* MouseBattery::read_battery_status, given how the two transport calls end
\* and the report read.
read_battery_status(send_ok, read_ok, bfr, w, m) ==
    IF ~send_ok THEN transport_failure(m)
    ELSE IF ~read_ok THEN transport_failure(m)
    ELSE resolve_status(bfr, w, m)

\* format!("{}.{}.{}.{}", bfr_r[7], bfr_r[8], bfr_r[9], bfr_r[10])
format_version(bfr) ==
    ToString(bfr[7]) \o "." \o ToString(bfr[8]) \o "." \o ToString(bfr[9])
        \o "." \o ToString(bfr[10])

-----------------------------------------------------------------------------
(* Display.                                                                *)

\* A key that ignores the percentage of a charging status.
get_icon_name_flat(s) ==
    IF s.kind = "Charging" THEN "battery_charging"
    ELSE IF s.kind = "Normal" THEN
        IF s.percentage <= 25 THEN "battery_0"
        ELSE IF s.percentage <= 50 THEN "battery_25"
        ELSE IF s.percentage <= 75 THEN "battery_50"
        ELSE "battery_75"
    ELSE IF s.kind = "FullyCharged" THEN "battery_100"
    ELSE "battery_unknown"

\* BatteryStatus::get_icon_name.
get_icon_name(s) ==
    IF s.kind = "Charging" THEN
        IF s.percentage >= 100 THEN "battery_100" ELSE "battery_charging"
    ELSE IF s.kind = "Normal" THEN
        IF s.percentage <= 25 THEN "battery_0"
        ELSE IF s.percentage <= 50 THEN "battery_25"
        ELSE IF s.percentage <= 75 THEN "battery_50"
        ELSE "battery_75"
    ELSE IF s.kind = "FullyCharged" THEN "battery_100"
    ELSE "battery_unknown"

\* BatteryStatus::get_mouse_model.
get_mouse_model(s) == IF s.kind = "NotFound" THEN None ELSE Some(s.mouse_model)

\* The name get_tooltip would embed if an unrecognized model fell back to "Mouse".
mouse_name_fallback(s) ==
    IF get_mouse_model(s) = None THEN "Mouse"
    ELSE IF config(get_mouse_model(s)[1]) = None THEN "Mouse"
    ELSE name(get_mouse_model(s)[1])

\* self.get_mouse_model().map(|m| m.name()).unwrap_or("Mouse")
mouse_name(s) ==
    IF get_mouse_model(s) = None THEN "Mouse" ELSE name(get_mouse_model(s)[1])

\* BatteryStatus::get_tooltip.
get_tooltip(s) ==
    IF s.kind = "Normal" THEN mouse_name(s) \o ": " \o ToString(s.percentage) \o "%"
    ELSE IF s.kind = "Charging" THEN
        mouse_name(s) \o ": " \o ToString(s.percentage) \o "% (Charging)"
    ELSE IF s.kind = "FullyCharged" THEN mouse_name(s) \o ": Fully Charged"
    ELSE IF s.kind = "Asleep" THEN mouse_name(s) \o ": Mouse is asleep"
    ELSE IF s.kind = "WakingUp" THEN mouse_name(s) \o ": Waking up..."
    ELSE IF s.kind = "NotFound" THEN "Mouse: Device not found"
    ELSE mouse_name(s) \o ": Unknown status"

\* The text create_text_icon draws.
icon_text(s) ==
    IF s.kind \in {"Normal", "Charging"} THEN ToString(s.percentage)
    ELSE IF s.kind = "FullyCharged" THEN "100"
    ELSE IF s.kind = "Asleep" THEN "ZZZ"
    ELSE IF s.kind = "WakingUp" THEN "..."
    ELSE IF s.kind = "NotFound" THEN "N/A"
    ELSE "???"

-----------------------------------------------------------------------------
(* Threads of the application.                                             *)

Threads == {"monitor", "ui"}

\* No thread is inside a handler.
ThreadsAtRest ==
    /\ pc = [t \in Threads |-> IF t = "monitor" THEN "await_tick" ELSE "idle"]
    /\ op = [t \in Threads |-> "battery"]
    /\ mutex = None
    /\ dev = [t \in Threads |-> None]
    /\ calls = [t \in Threads |-> <<>>]
    /\ result = [t \in Threads |-> None]
    /\ version = [t \in Threads |-> None]
    /\ tray = [text |-> icon_text(NotFound), tooltip |-> get_tooltip(NotFound)]
    /\ poll_err = FALSE

thread_vars == <<pc, op, mutex, dev, calls, result, version, tray, poll_err>>
locate_vars == <<device_list, selected>>
decode_vars == <<wired, mouse_model, device>>
display_vars == <<icon, tooltip>>

-----------------------------------------------------------------------------
(* The locator on its own: find_device over every enumeration.             *)

\* Interfaces an enumeration may hold: the four supported mice on the
\* feature interface, and interfaces failing one filter each.
Interface(v, p, i) == [vendor_id |-> v, product_id |-> p, interface_number |-> i]

EnumeratedInterfaces ==
    { Interface(GLORIOUS_VENDOR_ID, all_product_ids[k], FEATURE_INTERFACE) :
        k \in 1 .. Len(all_product_ids) }
    \cup { Interface(GLORIOUS_VENDOR_ID, 8209, 1),     \* the wired mouse's input interface
           Interface(1133, 8209, FEATURE_INTERFACE),   \* another vendor, a supported id
           Interface(GLORIOUS_VENDOR_ID, 8208, FEATURE_INTERFACE),  \* 0x2010: not in the registry
           Interface(GLORIOUS_VENDOR_ID, 8226, 0) }    \* a wireless mouse's input interface

SeqsUpTo(S, n) == UNION { [1 .. k -> S] : k \in 0 .. n }

Swap(seq, i) ==
    [k \in 1 .. Len(seq) |-> IF k = i THEN seq[i + 1] ELSE IF k = i + 1 THEN seq[i] ELSE seq[k]]

LocateInit ==
    /\ device_list \in SeqsUpTo(EnumeratedInterfaces, MaxDevices)
    /\ attached = { device_list[k] : k \in 1 .. Len(device_list) }
    /\ selected = <<>>
    /\ wired = FALSE /\ mouse_model = [config_index |-> None]
    /\ device = <<>> /\ status = <<>> /\ icon = <<>> /\ tooltip = <<>>
    /\ ThreadsAtRest

\* A call of find_device.
FindDevice ==
    /\ selected = <<>>
    /\ selected' = <<find_device(device_list)>>
    /\ UNCHANGED <<attached, device_list, decode_vars, status, display_vars, thread_vars>>

\* The same interfaces enumerated in another order, and find_device again.
Reenumerate ==
    /\ selected # <<>>
    /\ \E i \in 1 .. Len(device_list) - 1 :
          /\ device_list' = Swap(device_list, i)
          /\ selected' = <<find_device(device_list')>>
    /\ UNCHANGED <<attached, decode_vars, status, display_vars, thread_vars>>

LocateNext == FindDevice \/ Reenumerate

LocateSpec == LocateInit /\ [][LocateNext]_vars

-----------------------------------------------------------------------------
(* The battery decode on its own: read_battery_status over every report.   *)

\* The models get_battery_status passes on: those of a located device.
DetectedModels == { model_from_product_id(all_product_ids[k]) : k \in 1 .. Len(all_product_ids) }

\* Status bytes: the five of the table, and bytes outside it.
StatusBytes == {160, 161, 162, 163, 164} \cup {0, 165, 255}

\* Echoed tags: the battery tag, the firmware tag, none.
TagBytes == {BATTERY_TAG, FIRMWARE_TAG, 0}

Report(b1, b6, b8) ==
    [i \in ReportIndex |-> IF i = 1 THEN b1 ELSE IF i = 6 THEN b6 ELSE IF i = 8 THEN b8 ELSE 0]

Reports == { Report(b1, b6, b8) : b1 \in StatusBytes, b6 \in TagBytes, b8 \in Byte }

\* How a device answers: both calls succeed and a report comes back, or the
\* send fails, or the read fails.
Answers ==
    { [send_ok |-> TRUE, read_ok |-> TRUE, bfr_r |-> r] : r \in Reports }
    \cup { [send_ok |-> FALSE, read_ok |-> ok, bfr_r |-> Report(161, BATTERY_TAG, 42)] :
             ok \in BOOLEAN }
    \cup { [send_ok |-> TRUE, read_ok |-> FALSE, bfr_r |-> Report(161, BATTERY_TAG, 42)] }

DecodeInit ==
    /\ mouse_model \in DetectedModels
    /\ wired = is_wired(mouse_model)
    /\ device \in Answers
    /\ status = <<>>
    /\ device_list = <<>> /\ selected = <<>> /\ icon = <<>> /\ tooltip = <<>>
    /\ attached = {}
    /\ ThreadsAtRest

\* A call of read_battery_status.
ReadBatteryStatus ==
    /\ status = <<>>
    /\ status' = <<read_battery_status(device.send_ok, device.read_ok, device.bfr_r,
                                       wired, mouse_model)>>
    /\ UNCHANGED <<attached, locate_vars, decode_vars, display_vars, thread_vars>>

DecodeNext == ReadBatteryStatus

DecodeSpec == DecodeInit /\ [][DecodeNext]_vars

-----------------------------------------------------------------------------
(* The display functions on their own, over every BatteryStatus.           *)

RawSamples == {0, 1, 100, 161, 255}

BatteryStatuses ==
    { Normal(p, m) : p \in Byte, m \in MouseModels }
    \cup { Charging(p, m) : p \in Byte, m \in MouseModels }
    \cup { FullyCharged(m) : m \in MouseModels }
    \cup { Asleep(m) : m \in MouseModels }
    \cup { WakingUp(m) : m \in MouseModels }
    \cup { NotFound }
    \cup { Unknown(rs, rb, m) : rs \in RawSamples, rb \in RawSamples, m \in MouseModels }

DisplayInit ==
    /\ status \in { <<s>> : s \in BatteryStatuses }
    /\ icon = <<>> /\ tooltip = <<>>
    /\ device_list = <<>> /\ selected = <<>>
    /\ attached = {}
    /\ wired = FALSE /\ mouse_model = [config_index |-> None] /\ device = <<>>
    /\ ThreadsAtRest

\* A call of get_icon_name.
GetIconName ==
    /\ icon = <<>>
    /\ icon' = <<get_icon_name(status[1])>>
    /\ UNCHANGED <<attached, locate_vars, decode_vars, status, tooltip, thread_vars>>

\* A call of get_tooltip.
GetTooltip ==
    /\ tooltip = <<>>
    /\ tooltip' = <<get_tooltip(status[1])>>
    /\ UNCHANGED <<attached, locate_vars, decode_vars, status, icon, thread_vars>>

DisplayNext == GetIconName \/ GetTooltip

DisplaySpec == DisplayInit /\ [][DisplayNext]_vars

-----------------------------------------------------------------------------
(* The application: the polling task and the menu handlers.                *)

\* Interfaces the application may be started with: a wired and a wireless
\* supported mouse, and one interface failing each filter.
AttachedInterfaces ==
    { Interface(GLORIOUS_VENDOR_ID, 8209, FEATURE_INTERFACE),
      Interface(GLORIOUS_VENDOR_ID, 8244, FEATURE_INTERFACE),
      Interface(GLORIOUS_VENDOR_ID, 8209, 1),
      Interface(1133, 8226, FEATURE_INTERFACE),
      Interface(GLORIOUS_VENDOR_ID, 8208, FEATURE_INTERFACE) }

\* Reports a device answers a battery query with: awake at 42, asleep with
\* a zero reading, and a report that does not echo the tag.
BatteryReports ==
    { Report(161, BATTERY_TAG, 42), Report(164, BATTERY_TAG, 0), Report(161, 0, 42) }

\* Reports a device answers a firmware query with.
FirmwareReports ==
    { [i \in ReportIndex |-> IF i = 6 THEN FIRMWARE_TAG ELSE IF i \in 7 .. 10 THEN i - 6 ELSE 0],
      [i \in ReportIndex |-> 0] }

\* How update_tray_status ends: Ok, or the Err of the step that failed.
RenderOutcomes ==
    {"ok", "create_text_icon", "build_menu", "set_icon", "set_tooltip", "set_menu"}

\* The tray after update_tray_status ended with `outcome` for status s:
\* set_icon, set_tooltip and set_menu run in this order, up to the failure.
tray_after(old, s, outcome) ==
    [text |-> IF outcome \in {"ok", "set_tooltip", "set_menu"} THEN icon_text(s) ELSE old.text,
     tooltip |-> IF outcome \in {"ok", "set_menu"} THEN get_tooltip(s) ELSE old.tooltip]

\* Every status get_battery_status can return on an enumeration, for the
\* sample reports.
battery_statuses(list) ==
    IF find_device(list) = None THEN {NotFound}
    ELSE LET m == model_from_product_id(find_device(list)[1].product_id)
         IN  {NotFound, transport_failure(m)}
                \cup { resolve_status(r, is_wired(m), m) : r \in BatteryReports }

\* setup(): MouseBattery::new, setup_tray with the first status, and the
\* monitor task spawned.
InitThreads ==
    /\ pc = [t \in Threads |-> IF t = "monitor" THEN "await_tick" ELSE "idle"]
    /\ op = [t \in Threads |-> "battery"]
    /\ mutex = None
    /\ dev = [t \in Threads |-> None]
    /\ calls = [t \in Threads |-> <<>>]
    /\ result = [t \in Threads |-> None]
    /\ version = [t \in Threads |-> None]
    /\ \E s \in battery_statuses(device_list) :
          tray = [text |-> icon_text(s), tooltip |-> get_tooltip(s)]
    /\ poll_err = FALSE

\* The rest of the state once MouseBattery::new has enumerated.
InitRest ==
    /\ attached = { device_list[k] : k \in 1 .. Len(device_list) }
    /\ selected = <<>>
    /\ wired = FALSE /\ mouse_model = [config_index |-> None]
    /\ device = <<>> /\ status = <<>> /\ icon = <<>> /\ tooltip = <<>>
    /\ InitThreads

Init ==
    /\ device_list \in SeqsUpTo(AttachedInterfaces, MaxAttached)
    /\ InitRest

pure_vars == <<selected, wired, mouse_model, device, status, icon, tooltip>>

\* battery_monitor_task: interval.tick().await returns.
Tick ==
    /\ pc["monitor"] = "await_tick"
    /\ pc' = [pc EXCEPT !["monitor"] = "lock"]
    /\ op' = [op EXCEPT !["monitor"] = "battery"]
    /\ UNCHANGED <<attached, device_list, pure_vars, mutex, dev, calls, result, version, tray, poll_err>>

\* on_menu_event "refresh": update_tray_status.
Refresh ==
    /\ pc["ui"] = "idle"
    /\ pc' = [pc EXCEPT !["ui"] = "lock"]
    /\ op' = [op EXCEPT !["ui"] = "battery"]
    /\ UNCHANGED <<attached, device_list, pure_vars, mutex, dev, calls, result, version, tray, poll_err>>

\* on_menu_event "firmware": show_firmware_version.
Firmware ==
    /\ pc["ui"] = "idle"
    /\ pc' = [pc EXCEPT !["ui"] = "lock"]
    /\ op' = [op EXCEPT !["ui"] = "firmware"]
    /\ UNCHANGED <<attached, device_list, pure_vars, mutex, dev, calls, result, version, tray, poll_err>>

\* A caller that enters its query without waiting for the mutex.
Lock_unguarded(t) ==
    /\ pc[t] = "lock"
    /\ mutex' = Some(t)
    /\ pc' = [pc EXCEPT ![t] = IF op[t] = "firmware" THEN "detect" ELSE "locate"]
    /\ UNCHANGED <<attached, device_list, pure_vars, op, dev, calls, result, version, tray, poll_err>>

\* state.mouse_battery.lock().unwrap()
Lock(t) ==
    /\ pc[t] = "lock"
    /\ mutex = None
    /\ mutex' = Some(t)
    /\ pc' = [pc EXCEPT ![t] = IF op[t] = "firmware" THEN "detect" ELSE "locate"]
    /\ UNCHANGED <<attached, device_list, pure_vars, op, dev, calls, result, version, tray, poll_err>>

\* show_firmware_version: get_detected_model, for the name in the message.
Detect(t) ==
    /\ pc[t] = "detect"
    /\ pc' = [pc EXCEPT ![t] = "locate"]
    /\ UNCHANGED <<attached, device_list, pure_vars, op, mutex, dev, calls, result, version, tray, poll_err>>

\* The query of thread t returns: a battery query hands its status to
\* update_tray_status and drops the guard; a firmware query hands its
\* version to show_firmware_version, which keeps the guard.
Return(t, st, ver) ==
    IF op[t] = "battery"
    THEN /\ result' = [result EXCEPT ![t] = Some(st)]
         /\ mutex' = None
         /\ pc' = [pc EXCEPT ![t] = "render"]
         /\ UNCHANGED version
    ELSE /\ version' = [version EXCEPT ![t] = ver]
         /\ pc' = [pc EXCEPT ![t] = "notify"]
         /\ UNCHANGED <<result, mutex>>

\* get_battery_status / get_firmware_version: find_device on the HidApi's
\* device list, and open_device, which can succeed only on an interface
\* that is attached.
Locate(t) ==
    /\ pc[t] = "locate"
    /\ LET found == find_device(device_list)
       IN  \/ /\ found = None
              /\ Return(t, NotFound, None)
              /\ UNCHANGED dev
           \/ /\ found # None
              /\ dev' = [dev EXCEPT ![t] = found]
              /\ \E opened \in (IF found[1] \in attached THEN BOOLEAN ELSE {FALSE}) :
                    IF opened
                    THEN /\ pc' = [pc EXCEPT ![t] = "send"]
                         /\ UNCHANGED <<result, version, mutex>>
                    ELSE Return(t, NotFound, None)
    /\ UNCHANGED <<attached, device_list, pure_vars, op, calls, tray, poll_err>>

\* The MouseModel of the device thread t opened.
model_of(t) == model_from_product_id(dev[t][1].product_id)

\* device.send_feature_report(&bfr_w)
Send(t) ==
    /\ pc[t] = "send"
    /\ \E ok \in BOOLEAN :
          IF ok
          THEN /\ calls' = [calls EXCEPT ![t] = Append(@, "send ok")]
               /\ pc' = [pc EXCEPT ![t] = "sleep"]
               /\ UNCHANGED <<result, version, mutex>>
          ELSE /\ calls' = [calls EXCEPT ![t] = Append(@, "send err")]
               /\ Return(t, read_battery_status(FALSE, FALSE, <<>>, FALSE, model_of(t)), None)
    /\ UNCHANGED <<attached, device_list, pure_vars, op, dev, tray, poll_err>>

\* thread::sleep(Duration::from_millis(50))
Sleep(t) ==
    /\ pc[t] = "sleep"
    /\ pc' = [pc EXCEPT ![t] = "read"]
    /\ UNCHANGED <<attached, device_list, pure_vars, op, mutex, dev, calls, result, version, tray, poll_err>>

\* device.get_feature_report(&mut bfr_r), and the decode of the report.
Read(t) ==
    /\ pc[t] = "read"
    /\ LET m == model_of(t)
       IN  \/ /\ calls' = [calls EXCEPT ![t] = Append(@, "read err")]
              /\ Return(t, read_battery_status(TRUE, FALSE, <<>>, is_wired(m), m), None)
           \/ /\ calls' = [calls EXCEPT ![t] = Append(@, "read ok")]
              /\ \E r \in (IF op[t] = "battery" THEN BatteryReports ELSE FirmwareReports) :
                    Return(t, read_battery_status(TRUE, TRUE, r, is_wired(m), m),
                           Some(format_version(r)))
    /\ UNCHANGED <<attached, device_list, pure_vars, op, dev, tray, poll_err>>

\* A monitor whose loop ends on the first Err of update_tray_status.
after_update_stop(t, outcome) ==
    IF t = "monitor" THEN (IF outcome = "ok" THEN "await_tick" ELSE "stopped") ELSE "idle"

\* Where a thread goes when update_tray_status returned: the monitor logs
\* an Err and awaits the next tick, the menu handler returns.
after_update(t, outcome) == IF t = "monitor" THEN "await_tick" ELSE "idle"

\* update_tray_status after get_battery_status: the icon, the menu and the
\* three tray updates, any of which may fail.
Render(t) ==
    /\ pc[t] = "render"
    /\ \E outcome \in RenderOutcomes :
          /\ tray' = tray_after(tray, result[t][1], outcome)
          /\ pc' = [pc EXCEPT ![t] = after_update(t, outcome)]
          /\ poll_err' = IF t = "monitor" THEN outcome # "ok" ELSE poll_err
    /\ result' = [result EXCEPT ![t] = None]
    /\ dev' = [dev EXCEPT ![t] = None]
    /\ calls' = [calls EXCEPT ![t] = <<>>]
    /\ UNCHANGED <<attached, device_list, pure_vars, op, mutex, version>>

\* show_firmware_version: the message, and the guard dropped at its end.
Notify(t) ==
    /\ pc[t] = "notify"
    /\ mutex' = None
    /\ pc' = [pc EXCEPT ![t] = "idle"]
    /\ version' = [version EXCEPT ![t] = None]
    /\ dev' = [dev EXCEPT ![t] = None]
    /\ calls' = [calls EXCEPT ![t] = <<>>]
    /\ UNCHANGED <<attached, device_list, pure_vars, op, result, tray, poll_err>>

Step(t) ==
    \/ Lock(t)
    \/ Detect(t)
    \/ Locate(t)
    \/ Send(t)
    \/ Sleep(t)
    \/ Read(t)
    \/ Render(t)
    \/ Notify(t)

Next ==
    \/ Tick
    \/ Refresh
    \/ Firmware
    \/ \E t \in Threads : Step(t)

Spec == Init /\ [][Next]_vars

\* The timer fires; a thread inside a handler runs on, its transport calls
\* return, and a thread blocked on the mutex gets it once it is free often
\* enough.
Fairness ==
    /\ WF_vars(Tick)
    /\ \A t \in Threads :
          /\ SF_vars(Lock(t))
          /\ WF_vars(Detect(t) \/ Locate(t) \/ Send(t) \/ Sleep(t) \/ Read(t))
          /\ WF_vars(Render(t) \/ Notify(t))

\* The application started with no mouse, the wired one or a wireless one.
LiveInit ==
    /\ Init
    /\ Len(device_list) <= 1

LiveSpec == LiveInit /\ [][Next]_vars /\ Fairness

-----------------------------------------------------------------------------
(* The application while mice are plugged in and out.                      *)

\* Interfaces that come and go: the wired mouse, a wireless mouse, and the
\* wired mouse's input interface.
HotplugInterfaces ==
    { Interface(GLORIOUS_VENDOR_ID, 8209, FEATURE_INTERFACE),
      Interface(GLORIOUS_VENDOR_ID, 8244, FEATURE_INTERFACE),
      Interface(GLORIOUS_VENDOR_ID, 8209, 1) }

HotplugInit ==
    /\ device_list \in SeqsUpTo(HotplugInterfaces, MaxAttached)
    /\ InitRest

\* An interface is plugged in.  The HidApi's device list is the one
\* HidApi::new built: nothing in the application refreshes it.
Attach ==
    /\ \E d \in HotplugInterfaces \ attached : attached' = attached \cup {d}
    /\ UNCHANGED <<device_list, pure_vars, thread_vars>>

\* An interface is unplugged.
Detach ==
    /\ \E d \in attached : attached' = attached \ {d}
    /\ UNCHANGED <<device_list, pure_vars, thread_vars>>

HotplugNext ==
    \/ Next
    \/ Attach
    \/ Detach

HotplugSpec == HotplugInit /\ [][HotplugNext]_vars

-----------------------------------------------------------------------------
(* Properties.                                                             *)

Range(seq) == { seq[k] : k \in 1 .. Len(seq) }

\* The three filters, stated on the numbers.
PassesFilters(d) ==
    /\ d.vendor_id = 9610
    /\ d.product_id \in {8209, 8226, 8231, 8244}
    /\ d.interface_number = 2

IsWiredId(pid) ==
    \E k \in 1 .. Len(SUPPORTED_MICE) :
        SUPPORTED_MICE[k].product_id = pid /\ SUPPORTED_MICE[k].is_wired

PidOf(r) == IF r = None THEN None ELSE Some(r[1].product_id)

\* Every order in which the same interfaces can be enumerated.
Orders(seq) ==
    { [k \in 1 .. Len(seq) |-> seq[f[k]]] : f \in Permutations(1 .. Len(seq)) }

\* C4: find_device's choice does not depend on the enumeration order: every
\* order of the same interfaces yields the same product id, a wired one when
\* a wired interface matches, otherwise the lowest matching product id.
C4_OrderIndependent ==
    selected # <<>> =>
        LET r == selected[1]
            M == { d \in Range(device_list) : PassesFilters(d) }
        IN  /\ \A q \in Orders(device_list) : PidOf(find_device(q)) = PidOf(r)
            /\ (M # {}) => (r # None)
            /\ (\E d \in M : IsWiredId(d.product_id)) => IsWiredId(r[1].product_id)
            /\ (M # {} /\ \A d \in M : ~IsWiredId(d.product_id)) =>
                  (\A d \in M : r[1].product_id <= d.product_id)

\* C4 witness: a wireless match enumerated before a wired one and before a
\* wireless one of lower product id; the wired one was returned.
C4_Witness ==
    /\ selected # <<>> /\ selected[1] # None
    /\ Len(device_list) = 3
    /\ device_list[1] = Interface(9610, 8244, 2)
    /\ device_list[2] = Interface(9610, 8226, 2)
    /\ device_list[3] = Interface(9610, 8209, 2)
    /\ selected[1][1].product_id = 8209

\* The report was read: both transport calls succeeded.
Decoded == status # <<>> /\ device.send_ok /\ device.read_ok

\* The position of a status byte in [0xA1, 0xA4, 0xA2, 0xA0, 0xA3], 5 when absent.
TablePosition(b) ==
    IF b = 161 THEN 0 ELSE IF b = 164 THEN 1 ELSE IF b = 162 THEN 2
    ELSE IF b = 160 THEN 3 ELSE IF b = 163 THEN 4 ELSE 5

\* C1: with the tag echoed, (status-position, is_wired) resolves as the
\* table says: (0, wireless) Normal, (0, wired) FullyCharged at 100 or more
\* and Charging below, (1, any) Asleep, (3, any) WakingUp, anything else
\* Unknown with the raw bytes 1 and 8.
C1_ResolutionTable ==
    (Decoded /\ device.bfr_r[6] = 131) =>
        LET s == status[1]
            pos == TablePosition(device.bfr_r[1])
            raw == device.bfr_r[8]
            pct == IF raw = 0 THEN 1 ELSE raw
        IN  /\ (pos = 0 /\ ~wired) => s = Normal(pct, mouse_model)
            /\ (pos = 0 /\ wired /\ pct >= 100) => s = FullyCharged(mouse_model)
            /\ (pos = 0 /\ wired /\ pct < 100) => s = Charging(pct, mouse_model)
            /\ (pos = 1) => s = Asleep(mouse_model)
            /\ (pos = 3) => s = WakingUp(mouse_model)
            /\ (pos \in {2, 4, 5}) => s = Unknown(device.bfr_r[1], raw, mouse_model)

\* C1 witness: the wired mouse, status 0xA1, percentage 100: FullyCharged.
C1_Witness ==
    /\ Decoded /\ wired
    /\ device.bfr_r[1] = 161 /\ device.bfr_r[6] = 131 /\ device.bfr_r[8] = 100
    /\ status[1].kind = "FullyCharged"

\* C2: the percentage of a returned Normal or Charging is in 1 .. 100.
C2_PercentageInRange ==
    (status # <<>> /\ status[1].kind \in {"Normal", "Charging"}) =>
        status[1].percentage \in 1 .. 100

\* C6: in a Normal or Charging status a raw 0 is reported as 1 and a raw
\* 1 .. 100 unchanged; an Unknown decoded from a report carries the raw byte.
C6_Coercion ==
    Decoded =>
        LET s == status[1]
            raw == device.bfr_r[8]
        IN  /\ (s.kind \in {"Normal", "Charging"} /\ raw = 0) => s.percentage = 1
            /\ (s.kind \in {"Normal", "Charging"} /\ raw \in 1 .. 100) => s.percentage = raw
            /\ (s.kind = "Unknown") => s.raw_battery = raw

\* C6 witness: a raw 0 reported as Normal at 1.
C6_Witness ==
    /\ Decoded /\ device.bfr_r[8] = 0
    /\ status[1].kind = "Normal" /\ status[1].percentage = 1

\* C10 as stated: with the tag echoed 0xA1 is the normal branch, 0xA4 Asleep,
\* 0xA3 WakingUp, and 0xA2 and 0xA0 Unknown.
C10_Original ==
    (Decoded /\ device.bfr_r[6] = 131) =>
        LET s == status[1]
            b == device.bfr_r[1]
        IN  /\ (b = 161) => s.kind \in {"Normal", "Charging", "FullyCharged"}
            /\ (b = 164) => s.kind = "Asleep"
            /\ (b = 163) => s.kind = "WakingUp"
            /\ (b \in {162, 160}) => s.kind = "Unknown"

\* C10 amended: with the tag echoed 0xA1 is the normal branch, 0xA4 Asleep,
\* 0xA0 (position 3) WakingUp, and 0xA2 and 0xA3 (positions 2 and 4) Unknown.
C10_Amended ==
    (Decoded /\ device.bfr_r[6] = 131) =>
        LET s == status[1]
            b == device.bfr_r[1]
        IN  /\ (b = 161) => s.kind \in {"Normal", "Charging", "FullyCharged"}
            /\ (b = 164) => s.kind = "Asleep"
            /\ (b = 160) => s.kind = "WakingUp"
            /\ (b \in {162, 163}) => s.kind = "Unknown"

\* C10 witness: status byte 0xA0 with the tag echoed came back WakingUp.
C10_Witness ==
    /\ Decoded /\ device.bfr_r[6] = 131 /\ device.bfr_r[1] = 160
    /\ status[1].kind = "WakingUp"

\* The key of a Normal status by its percentage.
Bucket(p) ==
    IF p <= 25 THEN "battery_0" ELSE IF p <= 50 THEN "battery_25"
    ELSE IF p <= 75 THEN "battery_50" ELSE "battery_75"

\* C8 as stated: Normal is bucketed at 25, 50 and 75; the key of a Charging
\* and of a FullyCharged status is the same for every percentage; the other
\* variants give "battery_unknown".
C8_Original ==
    icon # <<>> =>
        LET s == status[1]
        IN  /\ (s.kind = "Normal") => icon[1] = Bucket(s.percentage)
            /\ (s.kind = "Charging") =>
                  \A p \in Byte : get_icon_name(Charging(p, s.mouse_model)) = icon[1]
            /\ (s.kind = "FullyCharged") => icon[1] = "battery_100"
            /\ (s.kind \in {"Asleep", "WakingUp", "NotFound", "Unknown"}) =>
                  icon[1] = "battery_unknown"

\* C8 amended: Normal is bucketed at 25, 50 and 75; Charging gives
\* "battery_charging" below 100 and "battery_100" from 100 on; FullyCharged
\* gives "battery_100"; the other variants give "battery_unknown".
C8_Amended ==
    icon # <<>> =>
        LET s == status[1]
        IN  /\ (s.kind = "Normal") => icon[1] = Bucket(s.percentage)
            /\ (s.kind = "Charging" /\ s.percentage < 100) => icon[1] = "battery_charging"
            /\ (s.kind = "Charging" /\ s.percentage >= 100) => icon[1] = "battery_100"
            /\ (s.kind = "FullyCharged") => icon[1] = "battery_100"
            /\ (s.kind \in {"Asleep", "WakingUp", "NotFound", "Unknown"}) =>
                  icon[1] = "battery_unknown"

\* C8 witness: a Charging status at 100 keyed "battery_100".
C8_Witness ==
    /\ icon = <<"battery_100">>
    /\ status[1].kind = "Charging" /\ status[1].percentage = 100

\* The suffix of each variant's tooltip.
Suffix(s) ==
    IF s.kind = "Normal" THEN ": " \o ToString(s.percentage) \o "%"
    ELSE IF s.kind = "Charging" THEN ": " \o ToString(s.percentage) \o "% (Charging)"
    ELSE IF s.kind = "FullyCharged" THEN ": Fully Charged"
    ELSE IF s.kind = "Asleep" THEN ": Mouse is asleep"
    ELSE IF s.kind = "WakingUp" THEN ": Waking up..."
    ELSE IF s.kind = "NotFound" THEN ": Device not found"
    ELSE ": Unknown status"

Recognized(s) == s.kind # "NotFound" /\ s.mouse_model.config_index # None

RegistryName(s) == SUPPORTED_MICE[s.mouse_model.config_index[1] + 1].name

\* C9 as stated: the tooltip is the registry name of the status's model and
\* the variant's suffix, with the name "Mouse" whenever the model is
\* unrecognized.
C9_Original ==
    tooltip # <<>> =>
        LET s == status[1]
        IN  tooltip[1] = (IF Recognized(s) THEN RegistryName(s) ELSE "Mouse") \o Suffix(s)

\* C9 amended: the tooltip is the registry name of the status's model and
\* the variant's suffix; the name is "Unknown Mouse" when the model has no
\* registry entry, and "Mouse" only for NotFound, which carries no model.
C9_Amended ==
    tooltip # <<>> =>
        LET s == status[1]
        IN  tooltip[1] = (IF Recognized(s) THEN RegistryName(s)
                          ELSE IF s.kind = "NotFound" THEN "Mouse"
                          ELSE "Unknown Mouse") \o Suffix(s)

\* C9 witness: an Asleep status of an unrecognized model, with its tooltip.
C9_Witness ==
    /\ tooltip = <<"Unknown Mouse: Mouse is asleep">>
    /\ status[1].kind = "Asleep" /\ status[1].mouse_model.config_index = None

\* The last transport call of thread t's query failed.
TransportFailed(t) ==
    calls[t] # <<>> /\ calls[t][Len(calls[t])] \in {"send err", "read err"}

\* The model of the registry entry with the product id of the opened device.
OpenedModel(t) ==
    [config_index |->
        Some(CHOOSE k \in 0 .. 3 : SUPPORTED_MICE[k + 1].product_id = dev[t][1].product_id)]

\* C3: after a device was opened, a failed send or read ends the battery
\* query with Unknown{0, 0, model of that device} and the firmware query
\* with no version, and nothing is read after a failed send.
C3_TransportFailureAbsorbed ==
    \A t \in Threads :
        /\ (pc[t] = "render" /\ TransportFailed(t)) =>
              /\ dev[t] # None
              /\ result[t] = Some(Unknown(0, 0, OpenedModel(t)))
        /\ (pc[t] = "notify" /\ TransportFailed(t)) => version[t] = None
        /\ (\E k \in 1 .. Len(calls[t]) : calls[t][k] = "send err") =>
              (calls[t] = <<"send err">> /\ pc[t] \in {"render", "notify"})
        /\ pc[t] \in {"await_tick", "idle", "lock", "detect", "locate", "send",
                      "sleep", "read", "render", "notify"}

\* C3 witness: the poll's read failed after a good send, and the status is
\* Unknown{0, 0} of the wireless mouse.
C3_Witness ==
    /\ pc["monitor"] = "render"
    /\ calls["monitor"] = <<"send ok", "read err">>
    /\ result["monitor"] = Some(Unknown(0, 0, [config_index |-> Some(3)]))

NoMatch == \A d \in Range(device_list) : ~PassesFilters(d)

\* C5: a device find_device hands out passes the three filters; when no
\* enumerated interface does, find_device returns none, the battery query
\* returns NotFound with no feature report sent, and the tooltip is
\* "Mouse: Device not found".
C5_FiltersAndNotFound ==
    /\ \A t \in Threads :
          dev[t] # None => (dev[t][1] \in Range(device_list) /\ PassesFilters(dev[t][1]))
    /\ NoMatch =>
          /\ find_device(device_list) = None
          /\ \A t \in Threads :
                /\ dev[t] = None /\ calls[t] = <<>>
                /\ pc[t] \notin {"send", "sleep", "read"}
                /\ (pc[t] = "render") =>
                      /\ result[t] = Some(NotFound)
                      /\ get_tooltip(result[t][1]) = "Mouse: Device not found"
          /\ tray.tooltip = "Mouse: Device not found"

\* C5 witness: two interfaces of the wired mouse's ids, neither the feature
\* interface of a Glorious device; the refresh returned NotFound.
C5_Witness ==
    /\ Len(device_list) = 2 /\ NoMatch
    /\ \E d \in Range(device_list) : d.interface_number = 1
    /\ pc["ui"] = "render" /\ op["ui"] = "battery"
    /\ result["ui"] = Some(NotFound) /\ calls["ui"] = <<>>

\* C7: a failed poll does not end the polling loop: after update_tray_status
\* returned Err the monitor awaits the next tick and invokes the locator
\* again, every tick is followed by a poll, and after each poll the monitor
\* awaits a tick before it polls again.
C7_LoopSurvivesFailedPoll ==
    /\ (poll_err /\ pc["monitor"] = "await_tick") ~> (pc["monitor"] = "locate")
    /\ (pc["monitor"] = "lock") ~> (pc["monitor"] = "locate")
    /\ [][(pc["monitor"] = "render" /\ pc'["monitor"] # "render")
             => pc'["monitor"] = "await_tick"]_vars
    /\ [][(pc["monitor"] # "locate" /\ pc'["monitor"] = "locate")
             => pc["monitor"] = "lock"]_vars

\* C7 witness: the last poll failed and the monitor is in the locator again.
C7_Witness == poll_err /\ pc["monitor"] = "locate"

\* C11: a report that does not echo the tag 0x83 decodes to Unknown with
\* the raw bytes 1 and 8 and the model, whatever its status byte and whether
\* the mouse is wired or not.
C11_StaleExchangeUnknown ==
    (Decoded /\ device.bfr_r[6] # 131) =>
        /\ status[1].kind \notin {"Normal", "Charging", "FullyCharged", "Asleep", "WakingUp"}
        /\ status[1] = [kind |-> "Unknown", raw_status |-> device.bfr_r[1],
                        raw_battery |-> device.bfr_r[8], mouse_model |-> mouse_model]

\* C11 witness: the wired mouse answers 0xA1 at 100 under the firmware tag,
\* and the status is Unknown{0xA1, 100}.
C11_Witness ==
    /\ Decoded /\ wired
    /\ device.bfr_r[1] = 161 /\ device.bfr_r[6] = 129 /\ device.bfr_r[8] = 100
    /\ status[1].kind = "Unknown" /\ status[1].raw_status = 161
    /\ status[1].raw_battery = 100

\* Thread t is inside a feature-report exchange: about to send, in the
\* settle sleep, or about to read.
InExchange(t) == pc[t] \in {"send", "sleep", "read"}

\* C12: at most one feature-report exchange is in flight: a thread inside
\* an exchange holds the mouse_battery mutex, and no other thread is inside
\* a query while it does.
C12_OneExchangeInFlight ==
    /\ Cardinality({ t \in Threads : InExchange(t) }) <= 1
    /\ \A t \in Threads :
          InExchange(t) =>
              /\ mutex = <<t>>
              /\ \A u \in Threads \ {t} :
                    pc[u] \notin {"detect", "locate", "send", "sleep", "read", "notify"}

\* C12 witness: the poll is in its settle sleep, holding the mutex, while
\* the firmware handler waits for it.
C12_Witness ==
    /\ pc["monitor"] = "sleep" /\ mutex = <<"monitor">>
    /\ pc["ui"] = "lock" /\ op["ui"] = "firmware"

\* C13: every battery query looks at the interfaces attached when it runs:
\* when a supported mouse is attached, find_device returns an attached
\* interface, also when the mouse was plugged in after MouseBattery::new;
\* when none is attached, the query returns NotFound.
C13_RefreshReenumerates ==
    [][\A t \in Threads :
          (pc[t] = "locate" /\ pc'[t] # "locate" /\ op[t] = "battery") =>
              /\ (\E d \in attached : PassesFilters(d)) =>
                    (dev'[t] # None /\ dev'[t][1] \in attached)
              /\ (\A d \in attached : ~PassesFilters(d)) =>
                    result'[t] = Some(NotFound)]_vars

====
